---- MODULE Spec2Model ----
(***************************************************************************)
(* AlertadorPY (src/Alerta.py): the verdict aggregator, the per-submitter  *)
(* rate limiter and the report/dedup/broadcast flow of handle_report.      *)
(*                                                                         *)
(* The specifications share the variables; the main ones are:              *)
(*   SpecAgg   one aggregation round (aggregate_checks), adapters finish   *)
(*             in any order with any outcome their code allows;            *)
(*   SpecRate  sequential calls of user_allowed under a clock;             *)
(*   Spec      concurrent handlers on one event loop, one action per       *)
(*             stretch of code between two await points;                   *)
(*   SpecJoin  /subscribe and /unsubscribe between the awaits of a         *)
(*             report.                                                     *)
(***************************************************************************)
EXTENDS Integers, Sequences, FiniteSets, TLC

VARIABLES
    ag_pc,        \* aggregate_checks: "idle", "gather", "done", "raised"
    ag_results,   \* gather's result list, one slot per adapter (argument order)
    ag_order,     \* the adapters in the order in which they finished
    ag_best,      \* the value aggregate_checks returns
    now,          \* the clock (time.time() / now_utc()), in whole ticks
    rate_cache,   \* _rate_cache: chat_id -> list of timestamps
    calls,        \* every user_allowed call made so far: [id, t, ok]
    hs,           \* the handler tasks: task -> locals and position
    users,        \* table users: the rows (id, chat_id), in id order
    users_seq,    \* AUTOINCREMENT counter of table users
    reports,      \* table reports, in id order (id = position)
    alerts,       \* table alerts, in id order (id = position)
    last_rowid,   \* the connection's last_insert_rowid()
    joining,      \* chat -> ensure_user calls between their SELECT and INSERT
    fn,           \* the pure function last applied ("none" before any)
    arg,          \* the argument it was applied to
    ret           \* the value it returned

aggVars  == <<ag_pc, ag_results, ag_order, ag_best>>
rateVars == <<now, rate_cache, calls>>
botVars  == <<hs, users, users_seq, reports, alerts, last_rowid, joining>>
pureVars == <<fn, arg, ret>>
vars == <<ag_pc, ag_results, ag_order, ag_best, now, rate_cache, calls,
          hs, users, users_seq, reports, alerts, last_rowid, joining,
          fn, arg, ret>>

(***************************************************************************)
(* Verdicts and adapter results                                            *)
(***************************************************************************)
STATUS_CLEAN      == "clean"
STATUS_SUSPICIOUS == "suspicious"
STATUS_PHISH      == "phish"
STATUS_UNKNOWN    == "unknown"

\* The coroutines handed to asyncio.gather, in argument order.
Adapters == <<"PhishTank", "URLhaus", "OpenPhish">>

AdapterIdx == 1..Len(Adapters)

\* {} , the empty details dict; an adapter's details are a non-empty record
\* of its own, modelled as the one-element tuple of its name.
NoDetails == <<>>

Pending == [kind |-> "pending", s |-> "-", src |-> "-", det |-> NoDetails]

\* What gather(return_exceptions=True) puts in the slot of a coroutine
\* that raised asyncio.CancelledError: the exception object, a
\* BaseException and no Exception.  (An instance of Exception in a slot
\* would have kind "exception".)
Cancelled == [kind |-> "cancelled", s |-> "-", src |-> "-", det |-> NoDetails]

\* The (status, source, details) tuple adapter i returns with status v.
AdapterResult(i, v) ==
    [kind |-> "result", s |-> v, src |-> Adapters[i], det |-> <<Adapters[i]>>]

\* The statuses each adapter can return (Alerta.py: check_phishtank,
\* check_urlhaus, check_openphish).
AdapterVerdicts(i) ==
    CASE i = 1 -> {STATUS_UNKNOWN, STATUS_CLEAN, STATUS_SUSPICIOUS, STATUS_PHISH}
      [] i = 2 -> {STATUS_UNKNOWN, STATUS_CLEAN, STATUS_SUSPICIOUS}
      [] i = 3 -> {STATUS_UNKNOWN}

\* What adapter i leaves in its slot of gather's list.  "except Exception"
\* turns every Exception of the request into an unknown result, so no
\* instance of Exception escapes; asyncio.CancelledError raised while
\* check_phishtank or check_urlhaus awaits its POST passes the handler and
\* ends in the slot.  check_openphish awaits nothing.
AdapterSlots(i) ==
    {AdapterResult(i, v) : v \in AdapterVerdicts(i)}
        \cup (IF i \in {1, 2} THEN {Cancelled} ELSE {})

\* status_order of aggregate_checks.
status_order(s) ==
    CASE s = STATUS_CLEAN      -> 0
      [] s = STATUS_UNKNOWN    -> 1
      [] s = STATUS_SUSPICIOUS -> 2
      [] s = STATUS_PHISH      -> 3

\* status_order[s] > status_order[best[0]]
Worse(s, b) == status_order(s) > status_order(b)

\* best = (STATUS_UNKNOWN, "none", {})
InitialBest == [s |-> STATUS_UNKNOWN, src |-> "none", det |-> NoDetails]

\* What the loop leaves when "s, src, det = res" raises TypeError: no
\* value is returned.
TypeError == [s |-> "-", src |-> "TypeError", det |-> NoDetails]

\* The for loop of aggregate_checks over results[k..], starting from best.
\* "if isinstance(res, Exception): continue" skips the instances of
\* Exception only; any other exception object reaches the unpacking.
RECURSIVE reduce(_, _, _)
reduce(results, k, best) ==
    IF k > Len(results) THEN best
    ELSE LET res == results[k] IN
         IF res.kind = "exception" THEN reduce(results, k + 1, best)
         ELSE IF res.kind # "result" THEN TypeError
         ELSE IF Worse(res.s, best.s)
              THEN reduce(results, k + 1,
                          [s |-> res.s, src |-> res.src, det |-> res.det])
              ELSE reduce(results, k + 1, best)

\* The list gather returns: one entry per awaitable, in the order of the
\* arguments, whatever the order of completion.
GatherInCompletionOrder(slots, order) == [k \in 1..Len(order) |-> slots[order[k]]]

GatherResults(slots, order) == slots

\* What "await asyncio.gather(..., return_exceptions=True)" does once the
\* slots are as given: it keeps waiting while a coroutine is pending and
\* returns when all have returned or raised; it never raises itself.
GatherOutcome(slots) ==
    IF \A i \in AdapterIdx : slots[i].kind # "pending" THEN "returned"
    ELSE "waiting"

aggregate_checks(slots, order) == reduce(GatherResults(slots, order), 1, InitialBest)

(***************************************************************************)
(* SpecAgg: one aggregation round                                          *)
(***************************************************************************)
\* aggregate_checks is called: the session is opened and gather schedules
\* the three coroutines.
AgStart ==
    /\ ag_pc = "idle"
    /\ ag_pc' = "gather"
    /\ UNCHANGED <<pureVars, ag_results, ag_order, ag_best, rateVars, botVars>>

\* Adapter i returns a (status, source, details) tuple, with one of the
\* statuses its code can return.
AdapterReturn(i) ==
    /\ ag_pc = "gather"
    /\ ag_results[i].kind = "pending"
    /\ \E v \in AdapterVerdicts(i) :
          ag_results' = [ag_results EXCEPT ![i] = AdapterResult(i, v)]
    /\ ag_order' = Append(ag_order, i)
    /\ UNCHANGED <<pureVars, ag_pc, ag_best, rateVars, botVars>>

\* Adapter i raises: the only exception that leaves an adapter is the
\* CancelledError of check_phishtank or check_urlhaus awaiting its POST.
AdapterRaise(i) ==
    /\ ag_pc = "gather"
    /\ ag_results[i].kind = "pending"
    /\ Cancelled \in AdapterSlots(i)
    /\ ag_results' = [ag_results EXCEPT ![i] = Cancelled]
    /\ ag_order' = Append(ag_order, i)
    /\ UNCHANGED <<pureVars, ag_pc, ag_best, rateVars, botVars>>

\* gather completes; the session is closed, the loop reduces the results
\* and aggregate_checks returns, or raises the TypeError of the loop (no
\* await in between).
AgJoin ==
    /\ ag_pc = "gather"
    /\ GatherOutcome(ag_results) = "returned"
    /\ IF aggregate_checks(ag_results, ag_order) = TypeError
       THEN /\ ag_best' = ag_best
            /\ ag_pc' = "raised"
       ELSE /\ ag_best' = aggregate_checks(ag_results, ag_order)
            /\ ag_pc' = "done"
    /\ UNCHANGED <<pureVars, ag_results, ag_order, rateVars, botVars>>

AggNext ==
    \/ AgStart
    \/ \E i \in AdapterIdx : AdapterReturn(i)
    \/ \E i \in AdapterIdx : AdapterRaise(i)
    \/ AgJoin

(***************************************************************************)
(* Rate limiter (user_allowed)                                             *)
(***************************************************************************)
\* USER_RATE_LIMIT_N and USER_RATE_LIMIT_WINDOW are read from the
\* environment (defaults 5 and 60 s, Alerta.py lines 88-89); the model runs
\* them with small values, the window in clock ticks.
USER_RATE_LIMIT_N == 1

USER_RATE_LIMIT_WINDOW == 1

\* The clock stops at MaxTime.
MaxTime == 2

\* SpecRate makes at most MaxCalls calls of user_allowed.
MaxCalls == 5

Chats == {101, 102}

\* _rate_cache.setdefault(chat_id, [])
setdefault(cache, chat_id) ==
    IF chat_id \in DOMAIN cache THEN cache
    ELSE [k \in DOMAIN cache \cup {chat_id} |->
             IF k = chat_id THEN << >> ELSE cache[k]]

\* _rate_cache[chat_id] = bucket
setitem(cache, chat_id, bucket) ==
    [k \in DOMAIN cache \cup {chat_id} |-> IF k = chat_id THEN bucket ELSE cache[k]]

\* [t for t in bucket if t >= window_start]
PruneStrict(bucket, window_start) == SelectSeq(bucket, LAMBDA t : t > window_start)

Prune(bucket, window_start) == SelectSeq(bucket, LAMBDA t : t >= window_start)

\* user_allowed(chat_id) at clock value t: the value returned and the cache
\* it leaves.  bucket.append(now) acts on the list stored in the cache.
user_allowed_detached(cache, chat_id, t) ==
    LET c0 == setdefault(cache, chat_id)
        bucket == Prune(c0[chat_id], t - USER_RATE_LIMIT_WINDOW)
    IN  [ok |-> Len(bucket) < USER_RATE_LIMIT_N, cache |-> c0]

user_allowed_offbyone(cache, chat_id, t) ==
    LET c0 == setdefault(cache, chat_id)
        bucket == Prune(c0[chat_id], t - USER_RATE_LIMIT_WINDOW)
        c1 == setitem(c0, chat_id, bucket)
    IN  IF Len(bucket) > USER_RATE_LIMIT_N
        THEN [ok |-> FALSE, cache |-> c1]
        ELSE [ok |-> TRUE, cache |-> setitem(c1, chat_id, Append(bucket, t))]

user_allowed(cache, chat_id, t) ==
    LET c0 == setdefault(cache, chat_id)
        window_start == t - USER_RATE_LIMIT_WINDOW
        bucket == Prune(c0[chat_id], window_start)
        c1 == setitem(c0, chat_id, bucket)
    IN  IF Len(bucket) >= USER_RATE_LIMIT_N
        THEN [ok |-> FALSE, cache |-> c1]
        ELSE [ok |-> TRUE, cache |-> setitem(c1, chat_id, Append(bucket, t))]

\* Time passes.
Tick ==
    /\ now < MaxTime
    /\ now' = now + 1
    /\ UNCHANGED <<pureVars, rate_cache, calls, aggVars, botVars>>

\* One call user_allowed(c).
Call(c) ==
    /\ Len(calls) < MaxCalls
    /\ LET r == user_allowed(rate_cache, c, now) IN
           /\ rate_cache' = r.cache
           /\ calls' = Append(calls, [id |-> c, t |-> now, ok |-> r.ok])
    /\ UNCHANGED <<pureVars, now, aggVars, botVars>>

RateNext ==
    \/ Tick
    \/ \E c \in Chats : Call(c)

(***************************************************************************)
(* The bot: handlers, tables, dedup and broadcast                          *)
(***************************************************************************)
\* The handler tasks of one run (concurrent_updates(True): every update
\* gets its own task, and the tasks interleave at their awaits).
Handlers == 1..2

\* ALERT_DEDUP_WINDOW_H is read from the environment (default 24 h,
\* Alerta.py line 84); the model runs it with a small value, in clock ticks.
ALERT_DEDUP_WINDOW_H == 1

\* ensure_user finds no row (and goes on to its INSERT) only while fewer
\* than MaxUserRows rows have been inserted into table users.
MaxUserRows == 1

\* ensure_user calls for one chat that can be between their SELECT and
\* their INSERT at the same time.
MaxJoining == 2

BROADCAST_BATCH_SIZE == 25

\* The url lists handle_report is called with: the normalized arguments of
\* /report and /check, or the result of extract_urls for a text message.
UrlLists == {<< >>, <<"u1">>}

\* The chats that subscribe and unsubscribe during a run.
Subscribers == {102}

\* /report and plain text call handle_report with silent=False, /check
\* with silent=True.
Commands == {"report", "check"}

IdleHandler ==
    [pc |-> "idle", chat |-> 0, urls |-> << >>, silent |-> FALSE,
     allowed |-> FALSE, idx |-> 0, status |-> "-", source |-> "-", rid |-> 0,
     bt |-> 0, chat_ids |-> << >>, bi |-> 0, sends |-> << >>, k |-> 0,
     att |-> << >>, present |-> << >>, cur |-> 0]

Min(a, b) == IF a < b THEN a ELSE b

\* The handler returns; its locals are gone.
Finished(rec) == [IdleHandler EXCEPT !.pc = "done"]

\* An exception leaves handle_report and ends the task; its locals are
\* gone.
Failed(rec) == [IdleHandler EXCEPT !.pc = "raised"]

\* "for url in urls": the next iteration awaits aggregate_checks(url), or
\* the loop ends and handle_report returns.
NextUrl(rec) ==
    IF rec.idx < Len(rec.urls)
    THEN [rec EXCEPT !.pc = "agg", !.idx = @ + 1,
                     !.status = "-", !.source = "-", !.rid = 0, !.bt = 0,
                     !.chat_ids = << >>, !.bi = 0, !.sends = << >>, !.k = 0,
                     !.att = << >>, !.present = << >>, !.cur = 0]
    ELSE Finished(rec)

\* "if not user_allowed(chat_id): reply; return"
ProceedsAlways(ok) == TRUE

ProceedsAfterCheck(ok) == ok

\* An update arrives and its handler runs up to its first await: cmd_report,
\* cmd_check or on_text, then handle_report up to "await aggregate_checks"
\* or up to the reply that ends it.  The tasks are taken in numeric order.
HandlerStart(h, cmd, c, urls) ==
    /\ hs[h].pc = "idle"
    /\ \A g \in Handlers : g < h => hs[g].pc # "idle"
    /\ IF urls = << >>
       THEN /\ hs' = [hs EXCEPT ![h] = Finished(IdleHandler)]
            /\ UNCHANGED <<pureVars, rate_cache, calls>>
       ELSE LET r == user_allowed(rate_cache, c, now)
                rec == [IdleHandler EXCEPT !.chat = c, !.urls = urls,
                                           !.silent = (cmd = "check"),
                                           !.allowed = r.ok]
            IN  /\ rate_cache' = r.cache
                /\ calls' = Append(calls, [id |-> c, t |-> now, ok |-> r.ok])
                /\ hs' = [hs EXCEPT ![h] =
                            IF ProceedsAfterCheck(r.ok) THEN NextUrl(rec)
                            ELSE Finished(rec)]
    /\ UNCHANGED <<pureVars, now, aggVars, users, users_seq, reports, alerts, last_rowid,
                   joining>>

\* The row save_report inserts.
ReportRow(id, rec, best, t) ==
    [id |-> id, reporter |-> rec.chat, url |-> rec.urls[rec.idx],
     status |-> best.s, source |-> best.src, created_at |-> t]

\* The aggregation round is over (every adapter has answered).  When
\* aggregate_checks returns, save_report runs its INSERT INTO reports;
\* when it raises TypeError, the exception leaves handle_report at the
\* await of line 406: no report is saved and the URLs after this one are
\* not handled.  The adapters touch nothing the handlers share, so the
\* answer of the round and the INSERT are one step here.
AggSave(h) ==
    /\ hs[h].pc = "agg"
    /\ \E r1 \in AdapterSlots(1), r2 \in AdapterSlots(2), r3 \in AdapterSlots(3) :
         LET best == aggregate_checks(<<r1, r2, r3>>, <<1, 2, 3>>)
         IN  IF best = TypeError
             THEN /\ hs' = [hs EXCEPT ![h] = Failed(hs[h])]
                  /\ UNCHANGED <<reports, last_rowid>>
             ELSE /\ hs' = [hs EXCEPT ![h].pc = "save_rowid",
                                      ![h].status = best.s, ![h].source = best.src]
                  /\ reports' = Append(reports,
                                       ReportRow(Len(reports) + 1, hs[h], best, now))
                  /\ last_rowid' = Len(reports) + 1
    /\ UNCHANGED <<pureVars, now, rate_cache, calls, aggVars, users, users_seq,
                   alerts, joining>>

\* "if status in (STATUS_SUSPICIOUS, STATUS_PHISH)"
NeedsDedup(status) == status \in {STATUS_SUSPICIOUS, STATUS_PHISH}

\* save_report: SELECT last_insert_rowid(); back in handle_report the
\* status decides between the dedup query and the next url.
SaveRowid(h) ==
    /\ hs[h].pc = "save_rowid"
    /\ LET rec == [hs[h] EXCEPT !.rid = last_rowid] IN
         hs' = [hs EXCEPT ![h] =
                  IF NeedsDedup(rec.status) THEN [rec EXCEPT !.pc = "dedup"]
                  ELSE NextUrl(rec)]
    /\ UNCHANGED <<pureVars, now, rate_cache, calls, aggVars, users, users_seq,
                   reports, alerts, last_rowid, joining>>

\* SELECT r.id FROM reports r JOIN alerts a ON a.report_id=r.id
\*  WHERE r.url=? AND r.created_at>=? LIMIT 1, with cutoff = now - window.
\* The isoformat strings of UTC datetimes compare as the instants do.
already_alerted_recently(rs, as, url, t) ==
    LET cutoff == t - ALERT_DEDUP_WINDOW_H IN
    \E i \in 1..Len(rs), j \in 1..Len(as) :
        /\ as[j].report_id = rs[i].id
        /\ rs[i].url = url
        /\ rs[i].created_at >= cutoff

\* "if not await already_alerted_recently(conn, url) and not silent"
BroadcastsWhenNew(alerted, silent) == ~alerted

ShouldBroadcast(alerted, silent) == ~alerted /\ ~silent

\* The dedup query answers, and handle_report calls broadcast_alert or
\* goes on.
Dedup(h) ==
    /\ hs[h].pc = "dedup"
    /\ LET rec == hs[h]
           url == rec.urls[rec.idx]
       IN  IF ShouldBroadcast(already_alerted_recently(reports, alerts, url, now),
                              rec.silent)
           THEN hs' = [hs EXCEPT ![h].pc = "bc_users", ![h].bt = now]
           ELSE hs' = [hs EXCEPT ![h] = NextUrl(rec)]
    /\ UNCHANGED <<pureVars, now, rate_cache, calls, aggVars, users, users_seq,
                   reports, alerts, last_rowid, joining>>

\* The subscribers the database holds when a run starts with an audience
\* (SpecBroadcast): more than one batch of them.
NSubs == 27

Audience == [i \in 1..NSubs |-> [id |-> i, chat_id |-> 200 + i]]

\* The chats to which a delivery can raise (the user blocked the bot, the
\* network failed, the request was cancelled): the subscriber of Spec, and
\* of the audience the first, the last of the first batch and the first of
\* the second batch.
MayFail == {102, 201, 200 + BROADCAST_BATCH_SIZE, 201 + BROADCAST_BATCH_SIZE}

Range(seq) == {seq[j] : j \in 1..Len(seq)}

\* The chat_id column of a list of rows of table users.
ChatIds(rows) == {rows[j].chat_id : j \in 1..Len(rows)}

\* What gather(*tasks, return_exceptions=True) holds for a send_message:
\* "ok" for its return value, or the exception it raised, "Exception" for
\* an instance of Exception (Forbidden, TimedOut, ...) and "CancelledError"
\* for asyncio.CancelledError, which is none.
\* "if not isinstance(res, Exception)"
NotException(res) == res # "Exception"

\* batch = chat_ids[i:i + BROADCAST_BATCH_SIZE]
Batch(rec) ==
    SubSeq(rec.chat_ids, rec.bi + 1, Min(rec.bi + BROADCAST_BATCH_SIZE, Len(rec.chat_ids)))

\* "for idx, res in enumerate(results): if not isinstance(res, Exception)":
\* the next index after k whose result passes the test and gets its
\* INSERT, 0 if none.
NextOk(sends, k) ==
    IF \E j \in (k + 1)..Len(sends) : NotException(sends[j])
    THEN CHOOSE j \in (k + 1)..Len(sends) :
            /\ NotException(sends[j])
            /\ \A m \in (k + 1)..(j - 1) : ~NotException(sends[m])
    ELSE 0

\* The elements of a set of chat ids in ascending order.
RECURSIVE Ascending(_)
Ascending(S) ==
    IF S = {} THEN << >>
    ELSE LET m == CHOOSE x \in S : \A y \in S : x <= y
         IN  <<m>> \o Ascending(S \ {m})

\* The row of table users with chat_id c (the column is UNIQUE).
RowOf(rows, c) == rows[CHOOSE j \in 1..Len(rows) : rows[j].chat_id = c]

\* The entries of the UNIQUE index on chat_id are the pairs (chat_id, id)
\* in ascending order: row r comes after the entry (c, id).
After(r, c, id) == r.chat_id > c \/ (r.chat_id = c /\ r.id > id)

\* broadcast_alert: conn.execute("SELECT chat_id FROM users").  The query
\* has no ORDER BY and SQLite answers it from the UNIQUE index on chat_id,
\* in ascending chat_id order; execute steps the statement to its first
\* row, whose index entry the cursor keeps (cur is the row's id).  With no
\* row the list is empty and broadcast_alert returns.
\* present keeps, for the properties, the subscribers at this moment.
BcUsers(h) ==
    /\ hs[h].pc = "bc_users"
    /\ hs' = [hs EXCEPT ![h] =
                IF users = << >> THEN NextUrl(hs[h])
                ELSE LET first == Ascending(ChatIds(users))[1] IN
                     [hs[h] EXCEPT !.pc = "bc_fetch",
                                   !.chat_ids = <<first>>,
                                   !.cur = RowOf(users, first).id,
                                   !.present = Ascending(ChatIds(users))]]
    /\ UNCHANGED <<pureVars, now, rate_cache, calls, aggVars, users, users_seq,
                   reports, alerts, last_rowid, joining>>

\* "async for row in cur": the rows after the first are fetched, those
\* the index holds now after the entry of the first.  A chat that was
\* deleted and inserted again since has a new id and a new entry after
\* the old one: it is read a second time.  The first batch is sent.
BcFetch(h) ==
    /\ hs[h].pc = "bc_fetch"
    /\ hs' = [hs EXCEPT ![h].pc = "bc_send", ![h].bi = 0, ![h].cur = 0,
                        ![h].chat_ids =
                            @ \o Ascending({users[j].chat_id : j \in
                                    {m \in 1..Len(users) :
                                        After(users[m], hs[h].chat_ids[1],
                                              hs[h].cur)}})]
    /\ UNCHANGED <<pureVars, now, rate_cache, calls, aggVars, users, users_seq,
                   reports, alerts, last_rowid, joining>>

\* gather(*tasks, return_exceptions=True) returns: every send_message of
\* the batch has returned or raised, and sends is the list of results.
BcSend(h) ==
    /\ hs[h].pc = "bc_send"
    /\ \E raised \in SUBSET {j \in 1..Len(Batch(hs[h])) : Batch(hs[h])[j] \in MayFail} :
       \E cancelled \in SUBSET raised :
         LET outcome == [j \in 1..Len(Batch(hs[h])) |->
                            IF j \in cancelled THEN "CancelledError"
                            ELSE IF j \in raised THEN "Exception"
                            ELSE "ok"]
             first == NextOk(outcome, 0)
         IN
         hs' = [hs EXCEPT ![h].sends = outcome, ![h].k = first,
                          ![h].att = @ \o Batch(hs[h]),
                          ![h].pc = IF first = 0 THEN "bc_sleep" ELSE "bc_insert"]
    /\ UNCHANGED <<pureVars, now, rate_cache, calls, aggVars, users, users_seq,
                   reports, alerts, last_rowid, joining>>

\* The row broadcast_alert inserts for delivery rec.k of the batch.  url and
\* checked_at are no columns of the table: they keep, for the properties,
\* the URL that was broadcast and the time of the dedup check that let the
\* broadcast start.
AlertRow(rec, t) ==
    [report_id |-> rec.rid, sent_to |-> Batch(rec)[rec.k], created_at |-> t,
     url |-> rec.urls[rec.idx], checked_at |-> rec.bt]

\* INSERT INTO alerts for the next result that is no instance of Exception.
BcInsert(h) ==
    /\ hs[h].pc = "bc_insert"
    /\ LET rec == hs[h]
           next == NextOk(rec.sends, rec.k)
       IN  /\ alerts' = Append(alerts, AlertRow(rec, now))
           /\ last_rowid' = Len(alerts) + 1
           /\ hs' = [hs EXCEPT ![h].k = next,
                               ![h].pc = IF next = 0 THEN "bc_sleep" ELSE "bc_insert"]
    /\ UNCHANGED <<pureVars, now, rate_cache, calls, aggVars, users, users_seq,
                   reports, joining>>

\* The commit and the sleep after a batch are over: the next batch is
\* sent, or broadcast_alert returns.
BcSleep(h) ==
    /\ hs[h].pc = "bc_sleep"
    /\ LET rec == hs[h]
           i == rec.bi + BROADCAST_BATCH_SIZE
       IN  hs' = [hs EXCEPT ![h] =
                    IF i < Len(rec.chat_ids)
                    THEN [rec EXCEPT !.pc = "bc_send", !.bi = i, !.sends = << >>, !.k = 0]
                    ELSE NextUrl(rec)]
    /\ UNCHANGED <<pureVars, now, rate_cache, calls, aggVars, users, users_seq,
                   reports, alerts, last_rowid, joining>>

\* /start and /subscribe, first part: ensure_user's SELECT finds no row
\* for the chat.  (When it finds one, ensure_user changes nothing.)
EnsureUserSelect(c) ==
    /\ users_seq < MaxUserRows
    /\ joining[c] < MaxJoining
    /\ c \notin ChatIds(users)
    /\ joining' = [joining EXCEPT ![c] = @ + 1]
    /\ UNCHANGED <<pureVars, now, rate_cache, calls, aggVars, hs, users, users_seq,
                   reports, alerts, last_rowid>>

\* Second part: the INSERT.  If the chat got its row meanwhile, the UNIQUE
\* constraint on chat_id fails, the INSERT raises IntegrityError and the
\* command ends with it; the tables stay as they are.
EnsureUserInsert(c) ==
    /\ joining[c] > 0
    /\ joining' = [joining EXCEPT ![c] = @ - 1]
    /\ IF c \notin ChatIds(users)
       THEN /\ users' = Append(users, [id |-> users_seq + 1, chat_id |-> c])
            /\ users_seq' = users_seq + 1
            /\ last_rowid' = users_seq + 1
       ELSE UNCHANGED <<users, users_seq, last_rowid>>
    /\ UNCHANGED <<pureVars, now, rate_cache, calls, aggVars, hs, reports, alerts>>

\* /unsubscribe: DELETE FROM users WHERE chat_id=?
Unsubscribe(c) ==
    /\ c \in ChatIds(users)
    /\ users' = SelectSeq(users, LAMBDA r : r.chat_id # c)
    /\ UNCHANGED <<pureVars, now, rate_cache, calls, aggVars, hs, users_seq,
                   reports, alerts, last_rowid, joining>>

(***************************************************************************)
(* The adapters: provider responses and their mapping to a status          *)
(***************************************************************************)
\* What a provider can answer to one POST.  net = "raise": session.post
\* raised (timeout, connection error).  Otherwise an HTTP response with a
\* status, a content type and a body: not JSON, JSON null, a JSON list, or
\* a JSON object of which the keys the adapters read are kept.
Absent == "absent"

PhishTankResults ==
    {[shape |-> "absent", in_database |-> Absent, valid |-> Absent],
     [shape |-> "notdict", in_database |-> Absent, valid |-> Absent]}
    \cup [shape : {"dict"}, in_database : {Absent, "true", "false"},
          valid : {Absent, "true", "false"}]

NoResults == [shape |-> "absent", in_database |-> Absent, valid |-> Absent]

Bodies ==
    [shape : {"notjson", "null", "list"}, results : {NoResults},
     query_status : {Absent}, url_status : {Absent}]
    \cup [shape : {"dict"}, results : PhishTankResults,
          query_status : {Absent, "ok", "no_results", "invalid_url"},
          url_status : {Absent, "online", "offline", "unknown"}]

NoBody == [shape |-> "null", results |-> NoResults,
           query_status |-> Absent, url_status |-> Absent]

Responses ==
    {[net |-> "raise", status |-> 0, ctype |-> "-", body |-> NoBody]}
    \cup [net : {"http"}, status : {200, 404, 500},
          ctype : {"application/json", "text/html"}, body : Bodies]

\* await r.json(content_type=...): the parsed body, or "raise".  With the
\* default content_type aiohttp raises ContentTypeError unless the response
\* is application/json; content_type=None skips that check.
json(resp, any_content_type) ==
    IF resp.body.shape = "notjson" THEN "raise"
    ELSE IF ~any_content_type /\ resp.ctype # "application/json" THEN "raise"
    ELSE "parsed"

\* Python truth value of d.get(key) for the values the model has.
Truthy(v) == v = "true"

\* What an adapter hands back: a triple (s, src, det), or an exception
\* (kind = "exception"); net tells whether a request was sent.
Triple(s, src, det, net) == [kind |-> "result", s |-> s, src |-> src, det |-> det, net |-> net]

NotRun == [kind |-> "pending", s |-> "-", src |-> "-", det |-> "-", net |-> FALSE]

\* check_phishtank, key = PHISHTANK_API_KEY is set.
check_phishtank(key, resp) ==
    IF ~key THEN Triple(STATUS_UNKNOWN, "PhishTank", "reason", FALSE)
    ELSE IF resp.net = "raise" THEN Triple(STATUS_UNKNOWN, "PhishTank", "error", TRUE)
    ELSE IF resp.status # 200 THEN Triple(STATUS_UNKNOWN, "PhishTank", "http", TRUE)
    ELSE IF json(resp, TRUE) = "raise" THEN Triple(STATUS_UNKNOWN, "PhishTank", "error", TRUE)
    ELSE IF resp.body.shape # "dict" \/ resp.body.results.shape = "notdict"
         THEN Triple(STATUS_UNKNOWN, "PhishTank", "error", TRUE)
    ELSE LET verified == Truthy(resp.body.results.in_database)
             valid == Truthy(resp.body.results.valid)
         IN  IF verified /\ valid THEN Triple(STATUS_PHISH, "PhishTank", "results", TRUE)
             ELSE IF verified /\ ~valid
                  THEN Triple(STATUS_SUSPICIOUS, "PhishTank", "results", TRUE)
             ELSE Triple(STATUS_CLEAN, "PhishTank", "results", TRUE)

check_openphish(resp) == Triple(STATUS_UNKNOWN, "OpenPhish", "note", FALSE)

\* check_urlhaus of Alerta.py.
check_urlhaus(resp) ==
    IF resp.net = "raise" THEN Triple(STATUS_UNKNOWN, "URLhaus", "error", TRUE)
    ELSE IF resp.status # 200 THEN Triple(STATUS_UNKNOWN, "URLhaus", "http", TRUE)
    ELSE IF json(resp, TRUE) = "raise" \/ resp.body.shape # "dict"
         THEN Triple(STATUS_UNKNOWN, "URLhaus", "error", TRUE)
    ELSE IF resp.body.query_status = "ok"
         THEN Triple(STATUS_SUSPICIOUS, "URLhaus", "j", TRUE)
    ELSE IF resp.body.query_status = "no_results"
         THEN Triple(STATUS_CLEAN, "URLhaus", "j", TRUE)
    ELSE Triple(STATUS_UNKNOWN, "URLhaus", "j", TRUE)

\* check_urlhaus of utils/checker.py.
checker_check_urlhaus(resp) ==
    IF resp.net = "raise" THEN Triple(STATUS_UNKNOWN, "URLhaus", "error", TRUE)
    ELSE IF resp.status # 200 THEN Triple(STATUS_UNKNOWN, "URLhaus", "empty", TRUE)
    ELSE IF json(resp, FALSE) = "raise" \/ resp.body.shape # "dict"
         THEN Triple(STATUS_UNKNOWN, "URLhaus", "error", TRUE)
    ELSE IF resp.body.query_status = "ok" /\ resp.body.url_status = "online"
         THEN Triple(STATUS_PHISH, "URLhaus", "r", TRUE)
    ELSE IF resp.body.query_status = "ok" /\ resp.body.url_status = "offline"
         THEN Triple(STATUS_SUSPICIOUS, "URLhaus", "r", TRUE)
    ELSE IF resp.body.query_status = "no_results"
         THEN Triple(STATUS_CLEAN, "URLhaus", "r", TRUE)
    ELSE Triple(STATUS_UNKNOWN, "URLhaus", "r", TRUE)

AdapterNames == {"PhishTank", "URLhaus", "OpenPhish", "checker"}

\* The providers' answer to the next lookup is fixed: whether the
\* PhishTank key is configured, and the response each request will get.
ProviderResponds ==
    /\ fn = "none"
    /\ \E key \in BOOLEAN, resp \in Responses :
          arg' = [key |-> key, resp |-> resp]
    /\ fn' = "adapters"
    /\ ret' = [a \in AdapterNames |-> NotRun]
    /\ UNCHANGED <<aggVars, rateVars, botVars>>

\* Adapter a runs against that answer.
Run(a) ==
    /\ fn = "adapters"
    /\ ret[a] = NotRun
    /\ ret' = [ret EXCEPT ![a] =
                 CASE a = "PhishTank" -> check_phishtank(arg.key, arg.resp)
                   [] a = "URLhaus" -> check_urlhaus(arg.resp)
                   [] a = "OpenPhish" -> check_openphish(arg.resp)
                   [] a = "checker" -> checker_check_urlhaus(arg.resp)]
    /\ UNCHANGED <<fn, arg, aggVars, rateVars, botVars>>

AdaptersNext ==
    \/ ProviderResponds
    \/ \E a \in AdapterNames : Run(a)

(***************************************************************************)
(* normalize_url                                                           *)
(***************************************************************************)
\* A string is a sequence of tokens: the scheme "http://", a letter "w",
\* the punctuation ".", "[", "]", the start of a query "/?q=" and a blank.
Scheme == "http://"

Query == "/?q="

\* The candidates: an optional blank, a host with or without scheme, plain
\* or defanged, a tail of up to MaxTail tokens, an optional blank.
MaxTail == 7

TailTokens == {"w", ".", "[", "]", Query}

Blanks == {<< >>, <<" ">>}

Heads == {<<"w", ".", "w">>, <<Scheme, "w", "[", ".", "]", "w">>}

Tails == UNION {[1..n -> TailTokens] : n \in 0..MaxTail}

\* str.strip(): leading and trailing whitespace goes.
RECURSIVE lstrip(_)
lstrip(s) == IF s # << >> /\ s[1] = " " THEN lstrip(Tail(s)) ELSE s

RECURSIVE rstrip(_, _)
rstrip(s, chars) ==
    IF s # << >> /\ s[Len(s)] \in chars THEN rstrip(SubSeq(s, 1, Len(s) - 1), chars) ELSE s

strip(s) == rstrip(lstrip(s), {" "})

\* str.replace("[.]", "."): every occurrence, left to right, no overlap.
RECURSIVE replace(_)
replace(s) ==
    IF Len(s) < 3 THEN s
    ELSE IF SubSeq(s, 1, 3) = <<"[", ".", "]">>
         THEN <<".">> \o replace(SubSeq(s, 4, Len(s)))
    ELSE <<s[1]>> \o replace(Tail(s))

\* The characters of .rstrip(".),;>\"]}") that the tokens can end with.
TrailingPunctuation == {".", "]"}

startswith(s, prefix) == s # << >> /\ s[1] = prefix

\* The position of the first Query token of s, Len(s) + 1 if there is none.
QueryAt(s) ==
    IF \E i \in 1..Len(s) : s[i] = Query
    THEN CHOOSE i \in 1..Len(s) : s[i] = Query /\ \A j \in 1..(i - 1) : s[j] # Query
    ELSE Len(s) + 1

\* A host name: at least two labels of letters joined by single dots.
HostOk(h) ==
    /\ Len(h) >= 3
    /\ \A i \in 1..Len(h) : h[i] \in {"w", "."}
    /\ h[1] = "w" /\ h[Len(h)] = "w"
    /\ \A i \in 1..(Len(h) - 1) : ~(h[i] = "." /\ h[i + 1] = ".")

\* validators.url(url) (library): no whitespace anywhere, an http scheme,
\* a valid host, and after it nothing or a query; the query may hold any
\* character that is not whitespace.
validators_url(u) ==
    /\ \A i \in 1..Len(u) : u[i] # " "
    /\ startswith(u, Scheme)
    /\ HostOk(SubSeq(u, 2, QueryAt(u) - 1))

None == [ok |-> FALSE, url |-> << >>]

normalize_url(url) ==
    LET u1 == replace(strip(url))
        u2 == rstrip(u1, TrailingPunctuation)
        u3 == IF startswith(u2, Scheme) THEN u2 ELSE <<Scheme>> \o u2
    IN  IF validators_url(u3) THEN [ok |-> TRUE, url |-> u3] ELSE None

\* normalize_url is applied to a candidate.
Normalize ==
    /\ fn = "none"
    /\ \E lead \in Blanks, head \in Heads, tail \in Tails, trail \in Blanks :
          /\ arg' = lead \o head \o tail \o trail
          /\ ret' = normalize_url(lead \o head \o tail \o trail)
    /\ fn' = "normalize_url"
    /\ UNCHANGED <<aggVars, rateVars, botVars>>

\* normalize_url is applied to the URL it returned.
NormalizeAgain ==
    /\ fn = "normalize_url"
    /\ ret.ok
    /\ arg' = ret.url
    /\ ret' = normalize_url(ret.url)
    /\ fn' = "normalize_url again"
    /\ UNCHANGED <<aggVars, rateVars, botVars>>

NormNext == Normalize \/ NormalizeAgain

(***************************************************************************)
(* extract_urls                                                            *)
(***************************************************************************)
\* A message text is a sequence of words (runs without whitespace), of at
\* most MaxWords words taken from Words.
MaxWords == 3

Words ==
    {<<Scheme, "w", ".", "w">>,
     <<Scheme, "w", ".", "w", Query, "w">>,
     <<Scheme, "w", "[", ".", "]", "w">>,
     <<Scheme, "w", ".", "w", ".">>,
     <<"w", Scheme, "w", ".", "w", Query>>,
     <<"w", ".", "w">>,
     <<Scheme, "[">>}

Texts == UNION {[1..n -> Words] : n \in 0..MaxWords}

\* The entities Telegram attaches: a TEXT_LINK carries its url, a URL
\* entity marks a span of the text, here the word at position at.
EntityLists ==
    {<< >>,
     <<[type |-> "text_link", url |-> <<"w", ".", "w", Query, Query>>, at |-> 0]>>,
     <<[type |-> "url", url |-> << >>, at |-> 1]>>,
     <<[type |-> "bold", url |-> << >>, at |-> 1]>>,
     <<[type |-> "text_link", url |-> << >>, at |-> 0],
       [type |-> "text_link", url |-> <<Scheme, "w", ".", "w">>, at |-> 0]>>}

\* The links of the entities that extract_urls adds to found.
EntityLinks(entities) ==
    {entities[i].url : i \in {j \in 1..Len(entities) :
        entities[j].type = "text_link" /\ entities[j].url # << >>}}

\* The position of the first Scheme token of a word, 0 if there is none.
SchemeAt(word) ==
    IF \E i \in 1..Len(word) : word[i] = Scheme
    THEN CHOOSE i \in 1..Len(word) : word[i] = Scheme /\ \A j \in 1..(i - 1) : word[j] # Scheme
    ELSE 0

\* URL_REGEX = https?://[^\s]+ matches in a word from its first scheme to
\* the end of the word, if something follows the scheme.
Matches(word) == SchemeAt(word) > 0 /\ SchemeAt(word) < Len(word)

Match(word) == SubSeq(word, SchemeAt(word), Len(word))

RegexLinks(text) == {Match(text[i]) : i \in {j \in 1..Len(text) : Matches(text[j])}}

\* The orders in which "for u in found" can visit a set of strings: the
\* order of a Python set of str depends on the hashes of the run.
Orders(S) ==
    {f \in [1..Cardinality(S) -> S] :
        \A i, j \in 1..Cardinality(S) : i # j => f[i] # f[j]}

\* normed: the normalizations that succeeded, in the order visited.
RECURSIVE normed(_, _)
normed(order, i) ==
    IF i > Len(order) THEN << >>
    ELSE IF normalize_url(order[i]).ok
         THEN <<normalize_url(order[i]).url>> \o normed(order, i + 1)
    ELSE normed(order, i + 1)

\* list(dict.fromkeys(xs)): the first occurrence of each element is kept.
RECURSIVE fromkeys(_, _)
fromkeys(xs, i) ==
    IF i > Len(xs) THEN << >>
    ELSE IF \E j \in 1..(i - 1) : xs[j] = xs[i] THEN fromkeys(xs, i + 1)
    ELSE <<xs[i]>> \o fromkeys(xs, i + 1)

\* found: the candidate strings collected from the entities and the text.
found(text, entities) == EntityLinks(entities) \cup RegexLinks(text)

\* order is the order in which the loop visits found(text, entities).
extract_urls(text, entities, order) == fromkeys(normed(order, 1), 1)

\* extract_urls is applied to a message.
Extract ==
    /\ fn = "none"
    /\ \E text \in Texts, entities \in EntityLists :
          \E order \in Orders(found(text, entities)) :
              /\ arg' = [text |-> text, entities |-> entities]
              /\ ret' = extract_urls(text, entities, order)
    /\ fn' = "extract_urls"
    /\ UNCHANGED <<aggVars, rateVars, botVars>>

ExtractNext == Extract

(***************************************************************************)
(* Specifications                                                          *)
(***************************************************************************)
Init ==
    /\ ag_pc = "idle"
    /\ ag_results = [i \in AdapterIdx |-> Pending]
    /\ ag_order = << >>
    /\ ag_best = InitialBest
    /\ now = 0
    /\ rate_cache = << >>
    /\ calls = << >>
    /\ hs = [h \in Handlers |-> IdleHandler]
    /\ users = << >>
    /\ users_seq = 0
    /\ reports = << >>
    /\ alerts = << >>
    /\ last_rowid = 0
    /\ joining = [c \in Subscribers |-> 0]
    /\ fn = "none"
    /\ arg = << >>
    /\ ret = << >>

\* A run that starts with one subscriber in table users (the database
\* file outlives the process).
InitSubscribed ==
    /\ ag_pc = "idle"
    /\ ag_results = [i \in AdapterIdx |-> Pending]
    /\ ag_order = << >>
    /\ ag_best = InitialBest
    /\ now = 0
    /\ rate_cache = << >>
    /\ calls = << >>
    /\ hs = [h \in Handlers |-> IdleHandler]
    /\ users = <<[id |-> 1, chat_id |-> 102]>>
    /\ users_seq = 1
    /\ reports = << >>
    /\ alerts = << >>
    /\ last_rowid = 0
    /\ joining = [c \in Subscribers |-> 0]
    /\ fn = "none"
    /\ arg = << >>
    /\ ret = << >>

\* The updates are handled concurrently (concurrent_updates(True)): the
\* handlers interleave at their awaits, under the clock, and the
\* subscriber can leave at any moment.
Next ==
    \/ Tick
    \/ \E h \in Handlers, cmd \in Commands, c \in Chats, urls \in UrlLists :
          HandlerStart(h, cmd, c, urls)
    \/ \E h \in Handlers : AggSave(h)
    \/ \E h \in Handlers : SaveRowid(h)
    \/ \E h \in Handlers : Dedup(h)
    \/ \E h \in Handlers : BcUsers(h)
    \/ \E h \in Handlers : BcFetch(h)
    \/ \E h \in Handlers : BcSend(h)
    \/ \E h \in Handlers : BcInsert(h)
    \/ \E h \in Handlers : BcSleep(h)
    \/ \E c \in Subscribers : Unsubscribe(c)

Spec == InitSubscribed /\ [][Next]_vars

\* No handler is between its first await and its end.
Quiet == \A h \in Handlers : hs[h].pc \in {"idle", "done", "raised"}

\* The updates arrive one after the other: an update is handled only when
\* the handler of the one before has returned.
SeqStart ==
    /\ Quiet
    /\ \E h \in Handlers, cmd \in Commands, c \in Chats, urls \in UrlLists :
          HandlerStart(h, cmd, c, urls)

\* /start and /subscribe arrive between two reports; the INSERT of
\* ensure_user follows its SELECT after an await, during which the next
\* report may have started.
SeqSubscribe == Quiet /\ \E c \in Subscribers : EnsureUserSelect(c)

SeqInsert == \E c \in Subscribers : EnsureUserInsert(c)

SeqUnsubscribe == Quiet /\ \E c \in Subscribers : Unsubscribe(c)

SeqNext ==
    \/ Tick
    \/ SeqStart
    \/ \E h \in Handlers : AggSave(h)
    \/ \E h \in Handlers : SaveRowid(h)
    \/ \E h \in Handlers : Dedup(h)
    \/ \E h \in Handlers : BcUsers(h)
    \/ \E h \in Handlers : BcFetch(h)
    \/ \E h \in Handlers : BcSend(h)
    \/ \E h \in Handlers : BcInsert(h)
    \/ \E h \in Handlers : BcSleep(h)
    \/ SeqSubscribe
    \/ SeqInsert
    \/ SeqUnsubscribe

SpecSeq == Init /\ [][SeqNext]_vars

\* Messages and commands with several URLs, arriving one after the other
\* within one rate-limit window: handle_report is called with the lists of
\* MessageUrlLists.
MessageUrlLists == {<< >>, <<"u1", "u2">>, <<"u2", "u2">>}

ReportStart ==
    /\ Quiet
    /\ \E h \in Handlers, cmd \in Commands, c \in Chats, urls \in MessageUrlLists :
          HandlerStart(h, cmd, c, urls)

ReportNext ==
    \/ ReportStart
    \/ \E h \in Handlers : AggSave(h)
    \/ \E h \in Handlers : SaveRowid(h)
    \/ \E h \in Handlers : Dedup(h)
    \/ \E h \in Handlers : BcUsers(h)
    \/ \E h \in Handlers : BcFetch(h)
    \/ \E h \in Handlers : BcSend(h)
    \/ \E h \in Handlers : BcInsert(h)
    \/ \E h \in Handlers : BcSleep(h)
    \/ SeqSubscribe
    \/ SeqInsert
    \/ SeqUnsubscribe

SpecReport == Init /\ [][ReportNext]_vars

\* A run that starts with the audience in table users (the database file
\* outlives the process).
InitBroadcast ==
    /\ ag_pc = "idle"
    /\ ag_results = [i \in AdapterIdx |-> Pending]
    /\ ag_order = << >>
    /\ ag_best = InitialBest
    /\ now = 0
    /\ rate_cache = << >>
    /\ calls = << >>
    /\ hs = [h \in Handlers |-> IdleHandler]
    /\ users = Audience
    /\ users_seq = NSubs
    /\ reports = << >>
    /\ alerts = << >>
    /\ last_rowid = 0
    /\ joining = [c \in Subscribers |-> 0]
    /\ fn = "none"
    /\ arg = << >>
    /\ ret = << >>

\* A member of the audience sends /unsubscribe.
Leave == \E c \in MayFail : Unsubscribe(c)

BroadcastNext ==
    \/ SeqStart
    \/ \E h \in Handlers : AggSave(h)
    \/ \E h \in Handlers : SaveRowid(h)
    \/ \E h \in Handlers : Dedup(h)
    \/ \E h \in Handlers : BcUsers(h)
    \/ \E h \in Handlers : BcFetch(h)
    \/ \E h \in Handlers : BcSend(h)
    \/ \E h \in Handlers : BcInsert(h)
    \/ \E h \in Handlers : BcSleep(h)
    \/ Leave

SpecBroadcast == InitBroadcast /\ [][BroadcastNext]_vars

\* A run that starts with two subscribers in table users, to each of which
\* a delivery can raise; the updates arrive one after the other under the
\* clock, and the subscribers can leave.
InitDelivery ==
    /\ ag_pc = "idle"
    /\ ag_results = [i \in AdapterIdx |-> Pending]
    /\ ag_order = << >>
    /\ ag_best = InitialBest
    /\ now = 0
    /\ rate_cache = << >>
    /\ calls = << >>
    /\ hs = [h \in Handlers |-> IdleHandler]
    /\ users = <<[id |-> 1, chat_id |-> 102], [id |-> 2, chat_id |-> 201]>>
    /\ users_seq = 2
    /\ reports = << >>
    /\ alerts = << >>
    /\ last_rowid = 0
    /\ joining = [c \in Subscribers |-> 0]
    /\ fn = "none"
    /\ arg = << >>
    /\ ret = << >>

DeliveryNext ==
    \/ Tick
    \/ SeqStart
    \/ \E h \in Handlers : AggSave(h)
    \/ \E h \in Handlers : SaveRowid(h)
    \/ \E h \in Handlers : Dedup(h)
    \/ \E h \in Handlers : BcUsers(h)
    \/ \E h \in Handlers : BcFetch(h)
    \/ \E h \in Handlers : BcSend(h)
    \/ \E h \in Handlers : BcInsert(h)
    \/ \E h \in Handlers : BcSleep(h)
    \/ Leave

SpecDelivery == InitDelivery /\ [][DeliveryNext]_vars

\* The subscription commands run at any moment, between the awaits of a
\* report and of each other; the reports arrive one after the other and
\* the clock stands still.
JoinNext ==
    \/ SeqStart
    \/ \E h \in Handlers : AggSave(h)
    \/ \E h \in Handlers : SaveRowid(h)
    \/ \E h \in Handlers : Dedup(h)
    \/ \E h \in Handlers : BcUsers(h)
    \/ \E h \in Handlers : BcFetch(h)
    \/ \E h \in Handlers : BcSend(h)
    \/ \E h \in Handlers : BcInsert(h)
    \/ \E h \in Handlers : BcSleep(h)
    \/ \E c \in Subscribers : EnsureUserSelect(c)
    \/ \E c \in Subscribers : EnsureUserInsert(c)
    \/ \E c \in Subscribers : Unsubscribe(c)

SpecJoin == Init /\ [][JoinNext]_vars

SpecAgg == Init /\ [][AggNext]_vars

\* The round on a running event loop: once gather's future is done the
\* loop resumes aggregate_checks, which runs to its return without
\* another await.  Nothing is assumed about the adapters.
SpecAggLive == Init /\ [][AggNext]_vars /\ WF_vars(AgJoin)

SpecRate == Init /\ [][RateNext]_vars

SpecAdapters == Init /\ [][AdaptersNext]_vars

SpecNorm == Init /\ [][NormNext]_vars

SpecExtract == Init /\ [][ExtractNext]_vars

(***************************************************************************)
(* Properties of one aggregation round (SpecAgg)                           *)
(***************************************************************************)
\* The severity order clean < unknown < suspicious < phish.
Severity(v) ==
    CASE v = "clean" -> 0 [] v = "unknown" -> 1 [] v = "suspicious" -> 2 [] v = "phish" -> 3

\* The adapters that returned (did not raise) in this round.
Returned == {i \in AdapterIdx : ag_results[i].kind = "result"}

\* The greatest severity among the verdicts returned; -1 if none returned.
MaxSeverity ==
    IF Returned = {} THEN 0 - 1
    ELSE CHOOSE m \in 0..3 :
            /\ \E i \in Returned : Severity(ag_results[i].s) = m
            /\ \A i \in Returned : Severity(ag_results[i].s) <= m

\* The adapters that returned the greatest severity.
Worst == {i \in Returned : Severity(ag_results[i].s) = MaxSeverity}

\* The first of them in the order PhishTank, URLhaus, OpenPhish.
FirstWorst == CHOOSE i \in Worst : \A j \in Worst : i <= j

NoneTriple == [s |-> "unknown", src |-> "none", det |-> << >>]

\* Adapter i raised in this round.
HasRaised(i) == ag_results[i].kind \in {"exception", "cancelled"}

\* aggregate_checks is over: it has returned, or raised.
Ended == ag_pc \in {"done", "raised"}

\* C1: for every combination of adapter outcomes, returned or raised,
\* aggregate_checks returns a verdict, and it is the maximum severity
\* among the verdicts of the adapters that did not raise.
C1_VerdictIsMaximum ==
    (Ended /\ Returned # {})
        => (ag_pc = "done" /\ Severity(ag_best.s) = MaxSeverity)

\* C2: if every adapter returns unknown or raises, aggregate_checks
\* returns, and returns exactly (unknown, "none", {}).
C2_AllUnknownGivesNone ==
    (Ended /\ \A i \in AdapterIdx : HasRaised(i) \/ ag_results[i].s = "unknown")
        => (ag_pc = "done" /\ ag_best = NoneTriple)

\* C3: whenever at least one adapter returns phish, aggregate_checks
\* returns the verdict phish, whatever the others return or raise and
\* wherever the phish result stands.
C3_PhishWins ==
    (Ended /\ \E i \in AdapterIdx :
            ag_results[i].kind = "result" /\ ag_results[i].s = "phish")
        => (ag_pc = "done" /\ ag_best.s = "phish")

RaisedAsUnknown ==
    [i \in AdapterIdx |->
        IF HasRaised(i) THEN AdapterResult(i, "unknown") ELSE ag_results[i]]

\* C5: an adapter that raises never aborts the round: the round ends only
\* when every adapter has returned or raised, it ends by returning, and
\* its aggregate is the one it would return had the raising adapters
\* returned unknown.
C5_RaiseIsUnknown ==
    Ended =>
        /\ \A i \in AdapterIdx : ag_results[i].kind # "pending"
        /\ ag_pc = "done"
        /\ ag_best = reduce(RaisedAsUnknown, 1, InitialBest)

(***************************************************************************)
(* Properties of the rate limiter (SpecRate)                               *)
(***************************************************************************)
\* The calls of user_allowed made for submitter c, in the order made.
CallsOf(c) == SelectSeq(calls, LAMBDA r : r.id = c)

\* The calls before the k-th of cs that returned true at a time >= t - W.
AcceptedInWindow(cs, k, t) ==
    {j \in 1..(k - 1) : cs[j].ok /\ cs[j].t >= t - USER_RATE_LIMIT_WINDOW}

\* Calls a .. a+N of cs start from an empty window and fall within one
\* window of W.
FullWindowAt(cs, a) ==
    /\ a + USER_RATE_LIMIT_N <= Len(cs)
    /\ AcceptedInWindow(cs, a, cs[a].t) = {}
    /\ cs[a + USER_RATE_LIMIT_N].t - cs[a].t <= USER_RATE_LIMIT_WINDOW

\* C6: starting from an empty window, of N+1 calls for one submitter made
\* within one window of W the first N return true and the (N+1)th false;
\* and a submitter rejected before is allowed again as soon as fewer than
\* N of its accepted timestamps are >= now - W.
C6_WindowOfN ==
    \A c \in Chats :
        LET cs == CallsOf(c) IN
        /\ \A a \in 1..Len(cs) :
              FullWindowAt(cs, a) =>
                  /\ \A k \in a..(a + USER_RATE_LIMIT_N - 1) : cs[k].ok
                  /\ ~cs[a + USER_RATE_LIMIT_N].ok
        /\ \A k \in 1..Len(cs) :
              ((\E j \in 1..(k - 1) : ~cs[j].ok)
                 /\ Cardinality(AcceptedInWindow(cs, k, cs[k].t)) < USER_RATE_LIMIT_N)
                  => cs[k].ok

\* A submitter fills its window, is rejected inside it, and is allowed
\* again later.
C6_Witness ==
    \E c \in Chats :
        LET cs == CallsOf(c) IN
        \E a \in 1..Len(cs) :
            /\ FullWindowAt(cs, a)
            /\ \A k \in a..(a + USER_RATE_LIMIT_N - 1) : cs[k].ok
            /\ ~cs[a + USER_RATE_LIMIT_N].ok
            /\ \E k \in (a + USER_RATE_LIMIT_N + 1)..Len(cs) : cs[k].ok

\* The window stored for submitter c ([] if it has none yet).
StoredWindow(cache, c) == IF c \in DOMAIN cache THEN cache[c] ELSE << >>

\* The timestamps of w that are not older than t - W.
NotOlder(w, t) == SelectSeq(w, LAMBDA x : ~(x < t - USER_RATE_LIMIT_WINDOW))

\* A step is a call of user_allowed: the history grows by one entry.
IsCall == Len(calls') = Len(calls) + 1

\* The effect the claim C7 gives a call of user_allowed.
PrunedThenRecorded ==
    LET call == calls'[Len(calls')]
        pruned == NotOlder(StoredWindow(rate_cache, call.id), call.t)
    IN  /\ call.id \in DOMAIN rate_cache'
        /\ rate_cache'[call.id] = IF call.ok THEN Append(pruned, call.t) ELSE pruned
        /\ \A d \in Chats \ {call.id} :
              /\ (d \in DOMAIN rate_cache') = (d \in DOMAIN rate_cache)
              /\ d \in DOMAIN rate_cache => rate_cache'[d] = rate_cache[d]

\* C7: every call of user_allowed(id) removes the timestamps older than
\* now - W from the window stored for id; rejected, it stores exactly the
\* pruned window; accepted, the pruned window with now appended; the
\* windows of the other submitters do not change.
C7_PruneThenRecord == [][IsCall => PrunedThenRecorded]_vars

\* The last call was accepted after an older timestamp had been pruned, an
\* earlier call of the same submitter was rejected, and another submitter
\* holds a window of its own.
C7_Witness ==
    /\ calls # << >>
    /\ LET call == calls[Len(calls)] IN
          /\ call.ok
          /\ rate_cache[call.id] = <<call.t>>
          /\ \E j \in 1..(Len(calls) - 1) :
                /\ calls[j].id = call.id /\ calls[j].ok
                /\ calls[j].t < call.t - USER_RATE_LIMIT_WINDOW
          /\ \E j \in 1..(Len(calls) - 1) : calls[j].id = call.id /\ ~calls[j].ok
          /\ \E d \in DOMAIN rate_cache : d # call.id /\ rate_cache[d] # << >>

(***************************************************************************)
(* Properties of the handlers (Spec)                                       *)
(***************************************************************************)
\* Handler h is past the rate-limit check: it awaits the aggregation round,
\* saves the report, asks the dedup query or broadcasts.
AtWork(h) == hs[h].pc \notin {"idle", "done", "raised"}

\* A step in which user_allowed returned False.
IsRejection == IsCall /\ ~calls'[Len(calls')].ok

\* C8: the rate-limit check precedes all verification work.  Only a
\* handler user_allowed accepted is ever in an aggregation round, a save or
\* a broadcast, and the step that rejects a submission ends its handler
\* and leaves the reports and the alerts as they were.
C8_RejectedDoesNoWork ==
    /\ [](\A h \in Handlers : AtWork(h) => hs[h].allowed)
    /\ [][IsRejection =>
            /\ reports' = reports
            /\ alerts' = alerts
            /\ \A h \in Handlers : hs'[h] # hs[h] => hs'[h].pc = "done"]_vars

\* The second submission was rejected and its handler has returned, with
\* the only report that of the first, whose handler is broadcasting.
C8_Witness ==
    /\ Len(calls) = 2 /\ calls[1].ok /\ ~calls[2].ok
    /\ hs[2].pc = "done"
    /\ hs[1].pc = "bc_insert"
    /\ Len(reports) = 1 /\ reports[1].reporter = calls[1].id

\* The calls for submitter c that returned true at a time in s .. s+W.
AcceptedBetween(c, s) ==
    {k \in 1..Len(calls) :
        /\ calls[k].id = c /\ calls[k].ok
        /\ calls[k].t >= s /\ calls[k].t <= s + USER_RATE_LIMIT_WINDOW}

\* C9: with the handlers interleaving at their awaits on one event loop,
\* in any window of W at most N calls of user_allowed for one submitter
\* return true.
C9_AtMostNPerWindow ==
    \A c \in Chats, s \in 0..MaxTime :
        Cardinality(AcceptedBetween(c, s)) <= USER_RATE_LIMIT_N

\* A second submission of the same submitter arrives within the window
\* while the handler of the first awaits its aggregation round, and is
\* rejected.
C9_Witness ==
    /\ Len(calls) = USER_RATE_LIMIT_N + 1
    /\ \A k \in 1..Len(calls) : calls[k].id = calls[1].id
    /\ calls[Len(calls)].t - calls[1].t <= USER_RATE_LIMIT_WINDOW
    /\ \A k \in 1..USER_RATE_LIMIT_N : calls[k].ok
    /\ ~calls[Len(calls)].ok
    /\ hs[1].pc = "agg"

\* Handler h passed the dedup check and is inside broadcast_alert.
InBroadcast(h) ==
    hs[h].pc \in {"bc_users", "bc_fetch", "bc_send", "bc_insert", "bc_sleep"}

\* C10: with the handlers interleaving at their awaits on one event loop,
\* no two handlers pass the dedup check for the same URL within the dedup
\* window: at most one broadcast for a URL is started within the window.
C10_AtMostOneBroadcast ==
    \A g, h \in Handlers :
        (g < h /\ InBroadcast(g) /\ InBroadcast(h)
           /\ hs[g].urls[hs[g].idx] = hs[h].urls[hs[h].idx])
            => hs[h].bt - hs[g].bt > ALERT_DEDUP_WINDOW_H

(***************************************************************************)
(* Properties of the dedup check                                           *)
(***************************************************************************)
\* The alert records written by broadcasts of url.
AlertsFor(url) == {j \in 1..Len(alerts) : alerts[j].url = url}

\* The handlers whose dedup query for url is about to answer.
Checking(url) == {h \in Handlers : hs[h].pc = "dedup" /\ hs[h].urls[hs[h].idx] = url}

\* What the query of handler h answers.
Answer(h) == already_alerted_recently(reports, alerts, hs[h].urls[hs[h].idx], now)

\* C11: of two sequential dedup checks for one URL made within the dedup
\* window, with a broadcast recorded between them, the first answers
\* "not alerted" and the second "alerted": the check answers false while no
\* alert of the URL is recorded, and true once one is, as long as it is made
\* within the window of the check that let the broadcast start.
C11_FalseThenTrue ==
    \A h \in Handlers :
        hs[h].pc = "dedup" =>
            LET url == hs[h].urls[hs[h].idx] IN
            /\ AlertsFor(url) = {} => ~Answer(h)
            /\ (\E j \in AlertsFor(url) :
                    now - alerts[j].checked_at <= ALERT_DEDUP_WINDOW_H) => Answer(h)

\* C12: already_alerted_recently(url) answers true exactly when an alert
\* record of that URL exists whose recording time lies within the trailing
\* dedup window: alerts recorded before the window never suppress, and an
\* alert recorded inside the window always does.
C12_ExactlyRecentAlerts ==
    \A h \in Handlers :
        hs[h].pc = "dedup" =>
            (Answer(h) <=>
                \E j \in AlertsFor(hs[h].urls[hs[h].idx]) :
                    alerts[j].created_at >= now - ALERT_DEDUP_WINDOW_H)

(***************************************************************************)
(* Properties of broadcast_alert (SpecBroadcast)                           *)
(***************************************************************************)
\* The first n recipients of handler h's broadcast.
FirstRecipients(h, n) == SubSeq(hs[h].chat_ids, 1, Min(n, Len(hs[h].chat_ids)))

\* Handler h's step returns from broadcast_alert after a delivery.
ReturnsFromBroadcast(h) ==
    hs[h].pc \in {"bc_send", "bc_insert", "bc_sleep"} /\ ~InBroadcast(h)'

\* The batches of a broadcast: while a batch is being delivered exactly
\* the batches before it have been attempted, of at most 25 recipients
\* each; once a batch is over it has been attempted whole, whichever
\* deliveries failed.
InBatches ==
    \A h \in Handlers :
        /\ hs[h].pc = "bc_send" =>
              /\ hs[h].att = FirstRecipients(h, hs[h].bi)
              /\ Len(Batch(hs[h])) \in 1..25
        /\ hs[h].pc \in {"bc_insert", "bc_sleep"} =>
              hs[h].att = FirstRecipients(h, hs[h].bi + 25)

\* C13: broadcast_alert attempts delivery exactly once to every
\* subscriber present when it starts, in consecutive batches of at most
\* 25, whichever deliveries failed: when it returns, the recipients
\* attempted are the subscribers in the table when the query started, each
\* once.
C13_EveryonePresentAtStart ==
    /\ []InBatches
    /\ [][\A h \in Handlers :
            ReturnsFromBroadcast(h) => hs[h].att = hs[h].present]_vars

(***************************************************************************)
(* Properties of the adapters (SpecAdapters)                               *)
(***************************************************************************)
\* The adapters of Alerta.py that have run against the current answer.
HasRun(a) == fn = "adapters" /\ ret[a].kind # "pending"

\* The response is one of the failure modes for adapter a: the request
\* raised or timed out, the status is not 200, the body is not JSON or not
\* a JSON object, or the object lacks what the adapter reads.
FailureMode(a) ==
    \/ arg.resp.net = "raise"
    \/ arg.resp.status # 200
    \/ arg.resp.body.shape # "dict"
    \/ a = "PhishTank" /\ arg.resp.body.results.shape # "dict"
    \/ a = "URLhaus" /\ arg.resp.body.query_status = Absent

\* C14: each adapter returns one triple carrying its own source name and
\* never raises; a timeout, a non-200 status, a malformed or unexpectedly
\* shaped response and a missing credential each give unknown; without a
\* PhishTank key check_phishtank answers unknown and sends no request.
C14_FailuresGiveUnknown ==
    \A a \in {"PhishTank", "URLhaus", "OpenPhish"} :
        HasRun(a) =>
            /\ ret[a].kind = "result" /\ ret[a].src = a
            /\ FailureMode(a) => ret[a].s = STATUS_UNKNOWN
            /\ (a = "PhishTank" /\ ~arg.key) =>
                  ret[a].s = STATUS_UNKNOWN /\ ~ret[a].net

\* The response is a 200 whose body every adapter parses to a JSON object.
Answered ==
    /\ arg.resp.net = "http" /\ arg.resp.status = 200
    /\ arg.resp.body.shape = "dict"
    /\ arg.resp.ctype = "application/json"

\* C15: every adapter maps the provider's answer the same way.  PhishTank:
\* in_database and valid gives phish, in_database and not valid gives
\* suspicious, not in_database gives clean.  URLhaus: query_status ok with
\* url_status online gives phish, ok with offline gives suspicious,
\* no_results gives clean.  The URLhaus adapters of Alerta.py and of
\* utils/checker.py give the same verdict for every response.
C15_SameMapping ==
    /\ (HasRun("PhishTank") /\ arg.key /\ Answered /\ arg.resp.body.results.shape = "dict") =>
          LET r == arg.resp.body.results IN
          /\ (r.in_database = "true" /\ r.valid = "true") => ret["PhishTank"].s = STATUS_PHISH
          /\ (r.in_database = "true" /\ r.valid = "false") =>
                ret["PhishTank"].s = STATUS_SUSPICIOUS
          /\ r.in_database = "false" => ret["PhishTank"].s = STATUS_CLEAN
    /\ (HasRun("URLhaus") /\ Answered) =>
          LET b == arg.resp.body IN
          /\ (b.query_status = "ok" /\ b.url_status = "online") =>
                ret["URLhaus"].s = STATUS_PHISH
          /\ (b.query_status = "ok" /\ b.url_status = "offline") =>
                ret["URLhaus"].s = STATUS_SUSPICIOUS
          /\ b.query_status = "no_results" => ret["URLhaus"].s = STATUS_CLEAN
    /\ (HasRun("URLhaus") /\ HasRun("checker")) => ret["URLhaus"].s = ret["checker"].s

(***************************************************************************)
(* Properties of normalize_url (SpecNorm)                                  *)
(***************************************************************************)
\* C17: normalization is idempotent: normalize_url applied to a URL it
\* returned returns that URL again.
C17_Idempotent ==
    fn = "normalize_url again" => (ret.ok /\ ret.url = arg)

(***************************************************************************)
(* Properties of extract_urls (SpecExtract)                                *)
(***************************************************************************)
\* The position in the text of the first word whose match normalizes to
\* u, 0 if no word does.
FirstSeen(text, u) ==
    LET at == {i \in 1..Len(text) :
                  Matches(text[i]) /\ normalize_url(Match(text[i])) = [ok |-> TRUE, url |-> u]}
    IN  IF at = {} THEN 0 ELSE CHOOSE i \in at : \A j \in at : i <= j

\* C16: extract_urls returns a list without duplicates, of URLs that
\* passed validation, in the order in which their candidates first occur
\* in the text.
C16_DistinctValidFirstSeen ==
    fn = "extract_urls" =>
        /\ \A i, j \in 1..Len(ret) : i # j => ret[i] # ret[j]
        /\ \A i \in 1..Len(ret) : validators_url(ret[i])
        /\ \A i, j \in 1..Len(ret) :
              (i < j /\ FirstSeen(arg.text, ret[i]) > 0 /\ FirstSeen(arg.text, ret[j]) > 0)
                  => FirstSeen(arg.text, ret[i]) < FirstSeen(arg.text, ret[j])

(***************************************************************************)
(* Properties of handle_report with several URLs (SpecReport)              *)
(***************************************************************************)
IsPrefix(s, t) == Len(s) <= Len(t) /\ SubSeq(t, 1, Len(s)) = s

\* Handler h saves the report of its current URL in this step.
Saves(h) ==
    /\ hs[h].pc = "agg" /\ hs'[h].pc = "save_rowid"
    /\ hs[h].allowed
    /\ hs'[h].idx = hs[h].idx /\ hs'[h].urls = hs[h].urls
    /\ reports' = Append(reports,
          [id |-> Len(reports) + 1, reporter |-> hs[h].chat,
           url |-> hs[h].urls[hs[h].idx],
           status |-> hs'[h].status, source |-> hs'[h].source,
           created_at |-> now])

\* Handler h takes up the next URL of its list in this step, the first
\* one when it starts, a later one only after the save of the one before.
TakesNextUrl(h) ==
    /\ hs'[h].pc = "agg" /\ hs'[h].idx = hs[h].idx + 1
    /\ hs[h].pc # "agg"
    /\ hs[h].pc = "idle" \/ hs'[h].urls = hs[h].urls

\* Handler h returns in this step: it was rejected or had no URL, or it
\* is through with the last URL of its list.
Returns(h) ==
    /\ hs[h].pc # "done" /\ hs'[h].pc = "done"
    /\ \/ hs[h].pc = "idle"
       \/ hs[h].pc # "agg" /\ hs[h].idx = Len(hs[h].urls)

\* C18: an accepted submission saves exactly one report per URL of its
\* list, in list order, with the verdict and the source of that URL's
\* aggregation round; a rejected submission and an empty list save none;
\* saved reports and alert records are never changed or deleted.  Step by
\* step: the table reports changes only by the save of a handler's current
\* URL; a handler waiting for a round leaves it only by that save; the
\* index of the current URL moves only by one, and only after the save;
\* a handler returns only before its first URL or after its last; and the
\* old tables are prefixes of the new ones.
C18_OneReportPerUrlInOrder ==
    [][/\ reports' # reports => \E h \in Handlers : Saves(h)
       /\ \A h \in Handlers :
            /\ (hs[h].pc = "agg" /\ hs'[h] # hs[h]) => Saves(h)
            /\ hs'[h].idx # hs[h].idx =>
                  \/ TakesNextUrl(h)
                  \/ hs'[h].pc = "done"
            /\ hs'[h].pc = "done" /\ hs[h].pc # "done" => Returns(h)
            /\ (hs[h].pc = "idle" /\ hs'[h].pc = "done") => reports' = reports
       /\ IsPrefix(reports, reports') /\ IsPrefix(alerts, alerts')]_vars

\* Handler h starts a broadcast in this step.
StartsBroadcast(h) == ~InBroadcast(h) /\ InBroadcast(h)'

\* C19: a broadcast is started only for a URL with verdict suspicious or
\* phish, only by the step in which the dedup check for that URL answered
\* "not alerted recently", and never by a handler of /check: such a
\* handler sends no message to a subscriber and no step of it writes an
\* alert record.
C19_BroadcastOnlyWhenDue ==
    /\ [](\A h \in Handlers :
            /\ InBroadcast(h) =>
                 /\ hs[h].status \in {STATUS_SUSPICIOUS, STATUS_PHISH}
                 /\ ~hs[h].silent
            /\ hs[h].silent => hs[h].att = << >>)
    /\ [][/\ \A h \in Handlers :
               /\ StartsBroadcast(h) =>
                    /\ hs[h].pc = "dedup"
                    /\ ~already_alerted_recently(reports, alerts,
                                                 hs[h].urls[hs[h].idx], now)
               /\ (hs[h].silent /\ hs'[h] # hs[h]) => alerts' = alerts
          /\ alerts' # alerts =>
               \E h \in Handlers : hs[h].pc = "bc_insert" /\ ~hs[h].silent]_vars

\* A /check with two URLs, with a subscriber in the table: the verdict of
\* the first URL was phish and no alert existed for it, and the handler is
\* at its second URL without having sent anything or written an alert.
C19_Witness ==
    /\ hs[1].silent /\ hs[1].pc = "agg" /\ hs[1].idx = 2
    /\ Len(reports) = 1 /\ reports[1].status = STATUS_PHISH
    /\ users # << >>
    /\ alerts = << >>

\* The aggregation rounds started for submitter c: the reports saved for
\* c (one per round that has returned) and the rounds awaited.
RoundsOf(c) ==
    Cardinality({i \in 1..Len(reports) : reports[i].reporter = c})
        + Cardinality({h \in Handlers : hs[h].pc = "agg" /\ hs[h].chat = c})

\* C20: within one window of W seconds at most N aggregation rounds are
\* started for a submitter, whatever the number of URLs of a message (the
\* runs of SpecReport stay within one window: the clock stands still).
C20_AtMostNRoundsPerWindow ==
    \A c \in Chats : RoundsOf(c) <= USER_RATE_LIMIT_N

(***************************************************************************)
(* Properties of the join of an aggregation round (SpecAggLive)            *)
(***************************************************************************)
\* Every adapter has returned or raised.
AllAnswered == \A i \in AdapterIdx : ag_results[i].kind # "pending"

\* C21: an aggregation round is wait-all, not fail-fast.  An adapter
\* completes only while the round is in gather, that is after all three
\* were scheduled together; the round has ended only with every adapter
\* returned or raised, and the aggregate is assigned only by the step that
\* finds them so; and once every adapter has returned or raised the round
\* eventually returns its aggregate.
C21_WaitAll ==
    /\ [](Ended => AllAnswered)
    /\ [][/\ \A i \in AdapterIdx :
               ag_results'[i] # ag_results[i] =>
                  /\ ag_pc = "gather" /\ ag_pc' = "gather"
                  /\ ag_results[i].kind = "pending"
          /\ (ag_best' # ag_best \/ Ended') =>
                  /\ AllAnswered
                  /\ ag_results' = ag_results]_vars
    /\ (AllAnswered ~> ag_pc = "done")

(***************************************************************************)
(* extract_urls and the annotations (SpecExtract)                          *)
(***************************************************************************)
\* The links the entities of a message carry: the url of a TEXT_LINK, and
\* the span of the text a URL entity marks.
AnnotatedLinks(text, entities) ==
    {entities[i].url : i \in {j \in 1..Len(entities) :
        entities[j].type = "text_link" /\ entities[j].url # << >>}}
    \cup
    {text[entities[i].at] : i \in {j \in 1..Len(entities) :
        entities[j].type = "url" /\ entities[j].at \in 1..Len(text)}}

\* C22: extract_urls returns the union of the annotated links and the
\* pattern matches: every link of a URL or TEXT_LINK entity that
\* normalizes to a valid URL is in the output, and so is every pattern
\* match that does.
C22_UnionWithAnnotations ==
    fn = "extract_urls" =>
        \A u \in AnnotatedLinks(arg.text, arg.entities) \cup RegexLinks(arg.text) :
            normalize_url(u).ok => normalize_url(u).url \in Range(ret)

(***************************************************************************)
(* Properties of the alert records of a broadcast (SpecDelivery)           *)
(***************************************************************************)
\* The indices of the current batch of handler h, up to n, whose delivery
\* succeeded.
Delivered(h, n) == {m \in 1..Min(n, Len(hs[h].sends)) : hs[h].sends[m] = "ok"}

\* The alert records with handler h's report_id for a recipient of its
\* current batch.
RecordsOfBatch(h) ==
    {j \in 1..Len(alerts) :
        /\ alerts[j].report_id = hs[h].rid
        /\ alerts[j].sent_to \in Range(Batch(hs[h]))}

\* The dedup answer for handler h's URL if its own report is left out.
AlertedByOthers(h) ==
    already_alerted_recently(SelectSeq(reports, LAMBDA r : r.id # hs[h].rid),
                             alerts, hs[h].urls[hs[h].idx], now)

\* C23: broadcast_alert writes one alert record (report_id, recipient) for
\* exactly the recipients whose delivery succeeded.  While the records of
\* a batch are written, those of the successes before the current one are
\* there, one each; after the batch, those of all its successes and no
\* other; a record is only ever appended for a delivery that succeeded.
\* Hence when a broadcast returns without a success, or found no
\* subscriber, its report has no alert record and the dedup check for the
\* URL answers as if the report did not exist.
C23_AlertsForSuccessesOnly ==
    /\ [](\A h \in Handlers :
            /\ hs[h].pc = "bc_insert" =>
                 /\ {alerts[j].sent_to : j \in RecordsOfBatch(h)} =
                        {Batch(hs[h])[m] : m \in Delivered(h, hs[h].k - 1)}
                 /\ Cardinality(RecordsOfBatch(h)) =
                        Cardinality(Delivered(h, hs[h].k - 1))
                 /\ hs[h].sends[hs[h].k] = "ok"
            /\ hs[h].pc = "bc_sleep" =>
                 /\ {alerts[j].sent_to : j \in RecordsOfBatch(h)} =
                        {Batch(hs[h])[m] : m \in Delivered(h, Len(hs[h].sends))}
                 /\ Cardinality(RecordsOfBatch(h)) =
                        Cardinality(Delivered(h, Len(hs[h].sends))))
    /\ [][/\ alerts' # alerts =>
               \E h \in Handlers :
                  /\ hs[h].pc = "bc_insert" /\ hs[h].sends[hs[h].k] = "ok"
                  /\ Len(alerts') = Len(alerts) + 1
                  /\ SubSeq(alerts', 1, Len(alerts)) = alerts
                  /\ alerts'[Len(alerts')].report_id = hs[h].rid
                  /\ alerts'[Len(alerts')].sent_to = Batch(hs[h])[hs[h].k]
          /\ \A h \in Handlers :
               (/\ InBroadcast(h) /\ ~InBroadcast(h)'
                /\ \A j \in 1..Len(alerts) : alerts[j].report_id # hs[h].rid)
                   => (already_alerted_recently(reports, alerts,
                                                hs[h].urls[hs[h].idx], now)
                          = AlertedByOthers(h))]_vars

====
